---- MODULE Spec2Model ----
(***************************************************************************)
(* Model of the student/course record manager of Tasks/std_system:         *)
(* SystemManager (systemmanager.py), Student (student.py) and Course       *)
(* (course.py).  The state is the manager's two dictionaries, the two      *)
(* class-level ID counters, and the observable result of the last call     *)
(* (return value, raised exception, printed lines).                        *)
(***************************************************************************)
EXTENDS Integers, Sequences, FiniteSets, TLC

\* ------------------------------------------------------------------ bounds
\* Spec: add_student constructs a student while Student._id_counter <= MaxStudents.
MaxStudents == 1
\* Spec: add_course is called while Course._id_counter <= MaxCourses.
MaxCourses == 1
\* SpecEnroll: add_student constructs a student while Student._id_counter <=
\* MaxStudentsEnroll.
MaxStudentsEnroll == 2
\* SpecEnroll: add_course is called while Course._id_counter <= MaxCoursesEnroll.
MaxCoursesEnroll == 1
\* SpecCourses: add_student constructs a student while Student._id_counter <=
\* MaxStudentsCourses.
MaxStudentsCourses == 1
\* SpecCourses: add_course is called while Course._id_counter <= MaxCoursesCourses.
MaxCoursesCourses == 2
\* SpecTrace: add_student constructs a student while Student._id_counter <=
\* MaxStudentsTrace.
MaxStudentsTrace == 1
\* SpecTrace: add_course is called while Course._id_counter <= MaxCoursesTrace.
MaxCoursesTrace == 2
\* SpecSearch: add_course is called while Course._id_counter <= MaxCoursesSearch.
MaxCoursesSearch == 3
\* SpecOrder: add_student constructs a student while Student._id_counter <=
\* MaxStudentsOrder.
MaxStudentsOrder == 2
\* SpecOrder: add_course is called while Course._id_counter <= MaxCoursesOrder.
MaxCoursesOrder == 2
\* SpecList: add_student constructs a student while Student._id_counter <=
\* MaxStudentsList.
MaxStudentsList == 3
\* SpecList: add_course is called while Course._id_counter <= MaxCoursesList.
MaxCoursesList == 2
\* SpecGrades: add_student constructs a student while Student._id_counter <=
\* MaxStudentsGrades.
MaxStudentsGrades == 2
\* SpecGrades: add_course is called while Course._id_counter <= MaxCoursesGrades.
MaxCoursesGrades == 2
\* SpecStrict: a Student of PY/STD is constructed while its _id_counter <=
\* MaxStudentsStrict.
MaxStudentsStrict == 1
\* SpecPermanent: add_student constructs a student while Student._id_counter <=
\* MaxStudentsPermanent.
MaxStudentsPermanent == 1
\* SpecPermanent: add_course is called while Course._id_counter <=
\* MaxCoursesPermanent.
MaxCoursesPermanent == 1
\* SpecCourseList: add_course is called while Course._id_counter <=
\* MaxCoursesCourseList.
MaxCoursesCourseList == 1

\* ------------------------------------------------------------------ inputs
\* Names handed to add_student: the empty string and two names.
StudentNames == {"", "Amina", "Omar"}
\* Names handed to add_course in SpecEnroll.
CourseNames == {"Math", "Biology"}
\* Names handed to add_course in Spec: one name, which keeps each student's
\* grade mapping to one key.
GradedCourseNames == {"Math"}
\* Names handed to add_student in SpecBlank, spelled character by character:
\* the empty string, a space, a space and a tab, "A", and "A" and a space.
BlankStudentNames == {<<>>, <<" ">>, <<" ", "\t">>, <<"A">>, <<"A", " ">>}
\* Names handed to add_student and add_course in SpecCourses.
OneStudentName == {"", "Amina"}
CourseNamesDup == {"", "Math", "Biology"}
\* The course name and the search strings of SpecTrace, spelled character by
\* character so that str.lower() can be computed on them.
Biology == <<"B", "i", "o", "l", "o", "g", "y">>
TraceStudentNames == {"Amina"}
TraceCourseNames == {Biology}
TraceQueries == {Biology, <<"b", "i", "o">>}
\* The course names and the search strings of SpecSearch: "Math", "MATH" and
\* "Mathematics"; "math", "MATHEMATICS" and "mat".
SearchCourseNames == {<<"M", "a", "t", "h">>, <<"M", "A", "T", "H">>,
                      <<"M", "a", "t", "h", "e", "m", "a", "t", "i", "c", "s">>}
SearchQueries == {<<"m", "a", "t", "h">>, <<"m", "a", "t">>,
                  <<"M", "A", "T", "H", "E", "M", "A", "T", "I", "C", "S">>}
\* Grades handed to record_grade: both boundaries and their outer neighbours.
Grades == {-1, 0, 100, 101}
\* Grades handed to record_grade in SpecGrades: two grades in range and one
\* above it.
TwoGrades == {50, 100, 101}
\* Students handed to the Course methods in SpecCourseList.
ListedStudents == {"Amina", "Omar", "Sara"}
\* IDs handed to the operations that take a student / course ID.
StudentIds == 1..MaxStudents
CourseIds == 1..MaxCourses
StudentIdsEnroll == 1..MaxStudentsEnroll
CourseIdsEnroll == 1..MaxCoursesEnroll
CourseIdsCourseList == 1..MaxCoursesCourseList
StudentIdsPermanent == 1..MaxStudentsPermanent
CourseIdsPermanent == 1..MaxCoursesPermanent
StudentIdsStrict == 1..MaxStudentsStrict
StudentIdsGrades == 1..MaxStudentsGrades
CourseIdsGrades == 1..MaxCoursesGrades
StudentIdsList == 1..MaxStudentsList
CourseIdsList == 1..MaxCoursesList
StudentIdsOrder == 1..MaxStudentsOrder
CourseIdsOrder == 1..MaxCoursesOrder
CourseIdsSearch == 1..MaxCoursesSearch
StudentIdsTrace == 1..MaxStudentsTrace
CourseIdsTrace == 1..MaxCoursesTrace
StudentIdsCourses == 1..MaxStudentsCourses
CourseIdsCourses == 1..MaxCoursesCourses

VARIABLES
    students,            \* SystemManager.students: student_id -> Student
    courses,             \* SystemManager.courses: course_id -> Course
    student_id_counter,  \* Student._id_counter
    course_id_counter,   \* Course._id_counter
    student_keys,        \* the keys of SystemManager.students in dict order
    course_keys,         \* the keys of SystemManager.courses in dict order
    returned,            \* history: IDs returned by add_student, in call order
    returned_courses,    \* history: IDs returned by add_course, in call order
    enrolledPairs,       \* history: <<student_id, course_id>> of every enroll_course
                         \* call that took its success branch
    last                 \* the last call: operation, arguments, result

vars == <<students, courses, student_keys, course_keys, student_id_counter,
          course_id_counter, returned, returned_courses, enrolledPairs, last>>

\* ------------------------------------------------------------------ helpers
\* The elements of a Python list.
Range(s) == {s[i] : i \in 1..Len(s)}

\* list.remove(x): the list without the first occurrence of x.
ListRemove(s, x) ==
    LET i == CHOOSE k \in 1..Len(s) : s[k] = x /\ \A j \in 1..(k - 1) : s[j] # x
    IN  [j \in 1..(Len(s) - 1) |-> IF j < i THEN s[j] ELSE s[j + 1]]

\* An empty dict.
EmptyDict == [k \in {} |-> k]

\* d[k] = v on a dict.
DictSet(d, k, v) == [x \in DOMAIN d \cup {k} |-> IF x = k THEN v ELSE d[x]]

\* del d[k] on a dict.
DictDel(d, k) == [x \in DOMAIN d \ {k} |-> d[x]]

\* The keys of a dict, in dict order, after d[k] = v: a new key goes last, a
\* key already present keeps its place.
KeysSet(keys, k) == IF k \in Range(keys) THEN keys ELSE Append(keys, k)

\* The keys of a dict, in dict order, after del d[k].
KeysDel(keys, k) == SelectSeq(keys, LAMBDA x : x # k)

\* A call's observable result: its return value (<<>> is None), the exception
\* that left it ("none" when it returned) and the lines it printed.
Call(op, args, ret, exc, out) ==
    [op |-> op, args |-> args, ret |-> ret, exc |-> exc, out |-> out]

\* ------------------------------------------------------------------ Student
\* Student.__init__ raises ValueError on `not name`: on the string of length 0.
StudentInitRaises(name) == Len(name) = 0

\* Variant of StudentCounterAfterInit: the counter is never advanced.
StudentCounterStuck(name, counter) == counter

\* Variant of StudentCounterAfterInit: the counter is advanced before the
\* name is checked.
StudentCounterEager(name, counter) == counter + 1

\* Student._id_counter after Student(name): the check precedes the increment.
StudentCounterAfterInit(name, counter) ==
    IF StudentInitRaises(name) THEN counter ELSE counter + 1

\* The object Student(name) builds when the counter holds `counter`.
NewStudent(name, counter) ==
    [student_id |-> counter, name |-> name, grades |-> EmptyDict,
     enrolled_courses |-> <<>>]

\* Variant of GradeInRange: both comparisons strict.
GradeInRangeStrict(grade) == 0 < grade /\ grade < 100

\* Variant of GradeInRange: the range check is missing.
GradeInRangeUnchecked(grade) == TRUE

\* Student.add_grade raises ValueError on `not 0 <= grade <= 100`.
GradeInRange(grade) == 0 <= grade /\ grade <= 100

\* Variant of StudentAddGrade: an existing entry is kept.
StudentAddGradeKeepsFirst(student, course_id, grade) ==
    IF course_id \in DOMAIN student.grades
    THEN student
    ELSE [student EXCEPT !.grades = DictSet(@, course_id, grade)]

\* Student.add_grade(course_id, grade), on its non-raising path.
StudentAddGrade(student, course_id, grade) ==
    [student EXCEPT !.grades = DictSet(@, course_id, grade)]

\* Student.enroll_in_course(course).
StudentEnrollInCourse(student, course) ==
    IF course \in Range(student.enrolled_courses)
    THEN student
    ELSE [student EXCEPT !.enrolled_courses = Append(@, course)]

\* What Student.enroll_in_course(course) prints.
StudentEnrollInCoursePrints(student, course) ==
    IF course \in Range(student.enrolled_courses)
    THEN << <<student.name, " is already enrolled in ", course>> >>
    ELSE <<>>

\* ------------------------------------------------------------------ Course
\* Variant of CourseCounterAfterInit: the counter is never advanced.
CourseCounterStuck(counter) == counter

\* Course._id_counter after Course(name).
CourseCounterAfterInit(counter) == counter + 1

\* Variant of NewCourse: the ID is read after the counter was advanced.
NewCourseAfterIncrement(name, counter) ==
    [course_id |-> counter + 1, name |-> name, enrolled_students |-> <<>>]

\* The object Course(name) builds when the counter holds `counter`.
NewCourse(name, counter) ==
    [course_id |-> counter, name |-> name, enrolled_students |-> <<>>]

\* Variant of CourseEnrollStudent: the membership test is missing.
CourseEnrollStudentAlways(course, student) ==
    [course EXCEPT !.enrolled_students = Append(@, student)]

\* Course.enroll_student(student).
CourseEnrollStudent(course, student) ==
    IF student \notin Range(course.enrolled_students)
    THEN [course EXCEPT !.enrolled_students = Append(@, student)]
    ELSE course

\* What Course.enroll_student(student) prints.
CourseEnrollStudentPrints(course, student) ==
    IF student \notin Range(course.enrolled_students)
    THEN << <<"student enrolled successfully in ", course.name>> >>
    ELSE << <<"student is already enrolled in ", course.name>> >>

\* Variant of CourseRemoveStudent: the list is left as it is.
CourseRemoveStudentKeeps(course, student) == course

\* Course.remove_student(student).
CourseRemoveStudent(course, student) ==
    IF student \in Range(course.enrolled_students)
    THEN [course EXCEPT !.enrolled_students = ListRemove(@, student)]
    ELSE course

\* What Course.remove_student(student) prints.
CourseRemoveStudentPrints(course, student) ==
    IF student \in Range(course.enrolled_students)
    THEN << <<"student removed from ", course.name>> >>
    ELSE << <<"student is not enrolled in ", course.name>> >>

\* ------------------------------------------------------------ SystemManager
\* str.lower() on one character: the ASCII capitals map to their small
\* letters and every other character of the inputs maps to itself.
UpperLetters == <<"A", "B", "C", "D", "E", "F", "G", "H", "I", "J", "K", "L", "M",
                  "N", "O", "P", "Q", "R", "S", "T", "U", "V", "W", "X", "Y", "Z">>
LowerLetters == <<"a", "b", "c", "d", "e", "f", "g", "h", "i", "j", "k", "l", "m",
                  "n", "o", "p", "q", "r", "s", "t", "u", "v", "w", "x", "y", "z">>
LowerChar(c) ==
    IF \E i \in DOMAIN UpperLetters : UpperLetters[i] = c
    THEN LowerLetters[CHOOSE i \in DOMAIN UpperLetters : UpperLetters[i] = c]
    ELSE c

\* str.lower() on a string given as the sequence of its characters.
StrLower(s) == [i \in 1..Len(s) |-> LowerChar(s[i])]

\* Variant of SearchMatches: the two names are compared as they are.
SearchMatchesCaseSensitive(search_name, course) == search_name = course.name

\* search_courses' test: `search_name.lower() == course.name.lower()`.
SearchMatches(search_name, course) == StrLower(search_name) = StrLower(course.name)

\* search_courses' loop over self.courses.values(): the names of the matching
\* courses, in the dictionary's order.
SearchResult(search_name) ==
    LET matching == SelectSeq(course_keys,
                              LAMBDA k : SearchMatches(search_name, courses[k]))
    IN  [i \in 1..Len(matching) |-> courses[matching[i]].name]

\* Variant of StudentRemovable: the enrollment test is missing.
StudentRemovableAlways(student) == TRUE

\* remove_student's inner test: `not student.enrolled_courses`.
StudentRemovable(student) == student.enrolled_courses = <<>>

\* remove_course's inner test: `not course.enrolled_students`.
CourseRemovable(course) == course.enrolled_students = <<>>

\* Variant of AlreadyEnrolled: the list of names is searched for the course
\* ID, which is never among them.
AlreadyEnrolledById(student, course) == FALSE

\* enroll_course's inner test, negated: `course.name in student.enrolled_courses`.
AlreadyEnrolled(student, course) == course.name \in Range(student.enrolled_courses)

Init ==
    /\ students = EmptyDict
    /\ courses = EmptyDict
    /\ student_keys = <<>>
    /\ course_keys = <<>>
    /\ student_id_counter = 1
    /\ course_id_counter = 1
    /\ returned = <<>>
    /\ returned_courses = <<>>
    /\ enrolledPairs = {}
    /\ last = Call("init", <<>>, <<>>, "none", <<>>)

\* SystemManager.add_student(name).
AddStudent(name) ==
    /\ student_id_counter' = StudentCounterAfterInit(name, student_id_counter)
    /\ IF StudentInitRaises(name)
       THEN /\ students' = students
            /\ student_keys' = student_keys
            /\ returned' = returned
            /\ last' = Call("add_student", <<name>>, <<>>, "ValueError", <<>>)
       ELSE LET student == NewStudent(name, student_id_counter)
            IN  /\ students' = DictSet(students, student.student_id, student)
                /\ student_keys' = KeysSet(student_keys, student.student_id)
                /\ returned' = Append(returned, student.student_id)
                /\ last' = Call("add_student", <<name>>, <<student.student_id>>,
                                "none", << <<"Student added successfully.">> >>)
    /\ UNCHANGED <<courses, course_keys, course_id_counter, returned_courses,
                   enrolledPairs>>

\* SystemManager.remove_student(student_id).
RemoveStudent(student_id) ==
    /\ IF student_id \in DOMAIN students
       THEN IF StudentRemovable(students[student_id])
            THEN /\ students' = DictDel(students, student_id)
                 /\ student_keys' = KeysDel(student_keys, student_id)
                 /\ last' = Call("remove_student", <<student_id>>, <<>>, "none",
                                 << <<"Student removed successfully.">> >>)
            ELSE /\ students' = students
                 /\ student_keys' = student_keys
                 /\ last' = Call("remove_student", <<student_id>>, <<>>, "none",
                                 << <<"Student has enrolled courses. Cannot remove.">> >>)
       ELSE /\ students' = students
            /\ student_keys' = student_keys
            /\ last' = Call("remove_student", <<student_id>>, <<>>, "none",
                            << <<"Invalid student ID.">> >>)
    /\ UNCHANGED <<courses, course_keys, student_id_counter, course_id_counter,
                   returned, returned_courses, enrolledPairs>>

\* SystemManager.add_course(name).
AddCourse(name) ==
    /\ LET course == NewCourse(name, course_id_counter)
       IN  /\ courses' = DictSet(courses, course.course_id, course)
           /\ course_keys' = KeysSet(course_keys, course.course_id)
           /\ returned_courses' = Append(returned_courses, course.course_id)
           /\ last' = Call("add_course", <<name>>, <<course.course_id>>, "none",
                           << <<"Course added successfully.">> >>)
    /\ course_id_counter' = CourseCounterAfterInit(course_id_counter)
    /\ UNCHANGED <<students, student_keys, student_id_counter, returned,
                   enrolledPairs>>

\* SystemManager.remove_course(course_id).
RemoveCourse(course_id) ==
    /\ IF course_id \in DOMAIN courses
       THEN IF CourseRemovable(courses[course_id])
            THEN /\ courses' = DictDel(courses, course_id)
                 /\ course_keys' = KeysDel(course_keys, course_id)
                 /\ last' = Call("remove_course", <<course_id>>, <<>>, "none",
                                 << <<"Course removed successfully.">> >>)
            ELSE /\ courses' = courses
                 /\ course_keys' = course_keys
                 /\ last' = Call("remove_course", <<course_id>>, <<>>, "none",
                                 << <<"Course has enrolled students. Cannot remove.">> >>)
       ELSE /\ courses' = courses
            /\ course_keys' = course_keys
            /\ last' = Call("remove_course", <<course_id>>, <<>>, "none",
                            << <<"Invalid course ID.">> >>)
    /\ UNCHANGED <<students, student_keys, student_id_counter, course_id_counter,
                   returned, returned_courses, enrolledPairs>>

\* SystemManager.enroll_course(student_id, course_id).
EnrollCourse(student_id, course_id) ==
    /\ IF student_id \in DOMAIN students /\ course_id \in DOMAIN courses
       THEN LET student == students[student_id]
                course == courses[course_id]
            IN  IF ~AlreadyEnrolled(student, course)
                THEN /\ students' = [students EXCEPT ![student_id] =
                                        StudentEnrollInCourse(student, course.name)]
                     /\ courses' = [courses EXCEPT ![course_id] =
                                       CourseEnrollStudent(course, student.name)]
                     /\ enrolledPairs' = enrolledPairs \cup {<<student_id, course_id>>}
                     /\ last' = Call("enroll_course", <<student_id, course_id>>, <<>>,
                                     "none",
                                     StudentEnrollInCoursePrints(student, course.name)
                                     \o CourseEnrollStudentPrints(course, student.name)
                                     \o << <<"Student enrolled in course successfully.">> >>)
                ELSE /\ UNCHANGED <<students, courses, enrolledPairs>>
                     /\ last' = Call("enroll_course", <<student_id, course_id>>, <<>>,
                                     "none",
                                     << <<"Student is already enrolled in the course.">> >>)
       ELSE /\ UNCHANGED <<students, courses, enrolledPairs>>
            /\ last' = Call("enroll_course", <<student_id, course_id>>, <<>>, "none",
                            << <<"Invalid student or course ID.">> >>)
    /\ UNCHANGED <<student_keys, course_keys, student_id_counter,
                   course_id_counter, returned, returned_courses>>

\* SystemManager.record_grade(student_id, course_id, grade).
RecordGrade(student_id, course_id, grade) ==
    /\ IF student_id \in DOMAIN students /\ course_id \in DOMAIN courses
       THEN LET student == students[student_id]
                course == courses[course_id]
            IN  IF GradeInRange(grade)
                THEN /\ students' = [students EXCEPT ![student_id] =
                                        StudentAddGrade(student, course.name, grade)]
                     /\ last' = Call("record_grade", <<student_id, course_id, grade>>,
                                     <<>>, "none",
                                     << <<"Grade recorded successfully.">> >>)
                ELSE /\ students' = students
                     /\ last' = Call("record_grade", <<student_id, course_id, grade>>,
                                     <<>>, "ValueError", <<>>)
       ELSE /\ students' = students
            /\ last' = Call("record_grade", <<student_id, course_id, grade>>, <<>>,
                            "none", << <<"Invalid student or course ID.">> >>)
    /\ UNCHANGED <<courses, student_keys, course_keys, student_id_counter,
                   course_id_counter, returned, returned_courses, enrolledPairs>>

\* Course.remove_student(student) called on the registered course course_id.
CourseRemoveStudentCall(course_id, student) ==
    /\ course_id \in DOMAIN courses
    /\ courses' = [courses EXCEPT ![course_id] = CourseRemoveStudent(@, student)]
    /\ last' = Call("Course.remove_student", <<course_id, student>>, <<>>, "none",
                    CourseRemoveStudentPrints(courses[course_id], student))
    /\ UNCHANGED <<students, student_keys, course_keys, student_id_counter,
                   course_id_counter, returned, returned_courses, enrolledPairs>>

\* search_courses(search_name).
SearchCourses(search_name) ==
    /\ last' = Call("search_courses", <<search_name>>, <<SearchResult(search_name)>>,
                    "none", <<>>)
    /\ UNCHANGED <<students, courses, student_keys, course_keys, student_id_counter,
                   course_id_counter, returned, returned_courses, enrolledPairs>>

\* Variant of DictValues: the values in the reverse of the dictionary's order.
DictValuesReversed(dict, keys) ==
    [i \in 1..Len(keys) |-> dict[keys[Len(keys) + 1 - i]]]

\* list(dict.values()): a new list of the dictionary's values, in the
\* dictionary's order.
DictValues(dict, keys) == [i \in 1..Len(keys) |-> dict[keys[i]]]

\* get_all_students().
GetAllStudents ==
    /\ last' = Call("get_all_students", <<>>, <<DictValues(students, student_keys)>>,
                    "none", <<>>)
    /\ UNCHANGED <<students, courses, student_keys, course_keys, student_id_counter,
                   course_id_counter, returned, returned_courses, enrolledPairs>>

\* get_all_courses().
GetAllCourses ==
    /\ last' = Call("get_all_courses", <<>>, <<DictValues(courses, course_keys)>>,
                    "none", <<>>)
    /\ UNCHANGED <<students, courses, student_keys, course_keys, student_id_counter,
                   course_id_counter, returned, returned_courses, enrolledPairs>>

\* The caller appends x to the list that get_all_students / get_all_courses
\* has just returned.  The list is the new object that list(...) built, so
\* the append writes to it alone.
ReturnedListAppend(x) ==
    /\ last.op \in {"get_all_students", "get_all_courses"}
    /\ last' = Call("list.append", <<last.op, x>>, <<Append(last.ret[1], x)>>,
                    "none", <<>>)
    /\ UNCHANGED <<students, courses, student_keys, course_keys, student_id_counter,
                   course_id_counter, returned, returned_courses, enrolledPairs>>

\* The caller pops the first entry of the list that get_all_students /
\* get_all_courses has just returned.
ReturnedListPop ==
    /\ last.op \in {"get_all_students", "get_all_courses"}
    /\ last.ret[1] # <<>>
    /\ last' = Call("list.pop", <<last.op>>, <<Tail(last.ret[1])>>, "none", <<>>)
    /\ UNCHANGED <<students, courses, student_keys, course_keys, student_id_counter,
                   course_id_counter, returned, returned_courses, enrolledPairs>>

\* Course.enroll_student(student) called on the registered course course_id.
CourseEnrollStudentCall(course_id, student) ==
    /\ course_id \in DOMAIN courses
    /\ courses' = [courses EXCEPT ![course_id] = CourseEnrollStudent(@, student)]
    /\ last' = Call("Course.enroll_student", <<course_id, student>>, <<>>, "none",
                    CourseEnrollStudentPrints(courses[course_id], student))
    /\ UNCHANGED <<students, student_keys, course_keys, student_id_counter,
                   course_id_counter, returned, returned_courses, enrolledPairs>>

\* ---------------------------------------------- Course of PY/STD/Course.py
\* Course.enroll_student(student) of PY/STD.
StdCourseEnrollStudent(course, student) ==
    IF student \notin Range(course.enrolled_students)
    THEN [course EXCEPT !.enrolled_students = Append(@, student)]
    ELSE course

\* What Course.enroll_student(student) of PY/STD prints.
StdCourseEnrollStudentPrints(course, student) ==
    IF student \notin Range(course.enrolled_students)
    THEN << <<" enrolled succflly: in ", course.name>> >>
    ELSE << <<"is enrolled in ", course.name>> >>

\* Course.remove_student(student) of PY/STD.
StdCourseRemoveStudent(course, student) ==
    IF student \in Range(course.enrolled_students)
    THEN [course EXCEPT !.enrolled_students = ListRemove(@, student)]
    ELSE course

\* What Course.remove_student(student) of PY/STD prints.
StdCourseRemoveStudentPrints(course, student) ==
    IF student \in Range(course.enrolled_students)
    THEN << <<"Student removed from", course.name, " ">> >>
    ELSE << <<"Student is enrolled in ", course.name>> >>

\* Course.enroll_student(student) of PY/STD called on the course object
\* course_id; a Course of PY/STD has the attributes of a Course of
\* std_system.
StdCourseEnrollStudentCall(course_id, student) ==
    /\ course_id \in DOMAIN courses
    /\ courses' = [courses EXCEPT ![course_id] = StdCourseEnrollStudent(@, student)]
    /\ last' = Call("STD.Course.enroll_student", <<course_id, student>>, <<>>, "none",
                    StdCourseEnrollStudentPrints(courses[course_id], student))
    /\ UNCHANGED <<students, student_keys, course_keys, student_id_counter,
                   course_id_counter, returned, returned_courses, enrolledPairs>>

\* Course.remove_student(student) of PY/STD called on the course object
\* course_id.
StdCourseRemoveStudentCall(course_id, student) ==
    /\ course_id \in DOMAIN courses
    /\ courses' = [courses EXCEPT ![course_id] = StdCourseRemoveStudent(@, student)]
    /\ last' = Call("STD.Course.remove_student", <<course_id, student>>, <<>>, "none",
                    StdCourseRemoveStudentPrints(courses[course_id], student))
    /\ UNCHANGED <<students, student_keys, course_keys, student_id_counter,
                   course_id_counter, returned, returned_courses, enrolledPairs>>

\* The names a caller passes to the Course methods: names a student can have.
PassedNames == {n \in StudentNames : ~StudentInitRaises(n)}

\* ------------------------------------------- Student of PY/STD/student.py
\* Student.__init__ of PY/STD: the new object, with the counter's value as ID.
StrictNewStudent(name, counter) ==
    [student_id |-> counter, name |-> name, grades |-> EmptyDict,
     enrolled_courses |-> <<>>]

\* Student(name) of PY/STD.  The object is kept in students under its ID, which
\* is where the calls below find it.
StrictStudentInit(name) ==
    /\ IF Len(name) = 0
       THEN /\ UNCHANGED <<students, student_keys, student_id_counter, returned>>
            /\ last' = Call("Student", <<name>>, <<>>,
                            "ValueError: Name cannot be empty", <<>>)
       ELSE LET student == StrictNewStudent(name, student_id_counter)
            IN  /\ students' = DictSet(students, student.student_id, student)
                /\ student_keys' = KeysSet(student_keys, student.student_id)
                /\ student_id_counter' = student_id_counter + 1
                /\ returned' = Append(returned, student.student_id)
                /\ last' = Call("Student", <<name>>, <<student.student_id>>,
                                "none", <<>>)
    /\ UNCHANGED <<courses, course_keys, course_id_counter, returned_courses,
                   enrolledPairs>>

\* What Student.enroll_in_course(course) of PY/STD raises: ValueError when the
\* course is in the list.
StrictEnrollError(student, course) ==
    IF course \in Range(student.enrolled_courses)
    THEN "ValueError: Already enrolled"
    ELSE "none"

\* Student.enroll_in_course(course) of PY/STD, called on the object student_id.
StrictEnrollInCourse(student_id, course) ==
    /\ student_id \in DOMAIN students
    /\ LET student == students[student_id]
           error == StrictEnrollError(student, course)
       IN  /\ students' = IF error = "none"
                          THEN [students EXCEPT ![student_id].enrolled_courses =
                                                   Append(@, course)]
                          ELSE students
           /\ last' = Call("Student.enroll_in_course", <<student_id, course>>, <<>>,
                           error, <<>>)
    /\ UNCHANGED <<courses, student_keys, course_keys, student_id_counter,
                   course_id_counter, returned, returned_courses, enrolledPairs>>

\* The range test of add_grade of PY/STD, negated: `0 <= grade <= 100`.
StrictGradeInRange(grade) == 0 <= grade /\ grade <= 100

\* Variant of StrictAddGradeError: the range is tested before the enrollment.
StrictAddGradeErrorRangeFirst(student, course_id, grade) ==
    IF ~StrictGradeInRange(grade)
    THEN "ValueError: Grade must be between 0 and 100"
    ELSE IF course_id \notin Range(student.enrolled_courses)
         THEN "ValueError: Not enrolled in course"
         ELSE "none"

\* What Student.add_grade(course_id, grade) of PY/STD raises: ValueError when
\* the course is not in the list, else ValueError when the grade is out of
\* range.
StrictAddGradeError(student, course_id, grade) ==
    IF course_id \notin Range(student.enrolled_courses)
    THEN "ValueError: Not enrolled in course"
    ELSE IF ~StrictGradeInRange(grade)
         THEN "ValueError: Grade must be between 0 and 100"
         ELSE "none"

\* Student.add_grade(course_id, grade) of PY/STD, called on the object
\* student_id.
StrictAddGrade(student_id, course_id, grade) ==
    /\ student_id \in DOMAIN students
    /\ LET student == students[student_id]
           error == StrictAddGradeError(student, course_id, grade)
       IN  /\ students' = IF error = "none"
                          THEN [students EXCEPT ![student_id].grades =
                                                   DictSet(@, course_id, grade)]
                          ELSE students
           /\ last' = Call("Student.add_grade", <<student_id, course_id, grade>>,
                           <<>>, error, <<>>)
    /\ UNCHANGED <<courses, student_keys, course_keys, student_id_counter,
                   course_id_counter, returned, returned_courses, enrolledPairs>>

\* Every operation of the manager, and Course.remove_student.
Next ==
    \/ \E name \in StudentNames :
          /\ StudentInitRaises(name) \/ student_id_counter <= MaxStudents
          /\ AddStudent(name)
    \/ \E student_id \in StudentIds : RemoveStudent(student_id)
    \/ \E name \in GradedCourseNames :
          course_id_counter <= MaxCourses /\ AddCourse(name)
    \/ \E course_id \in CourseIds : RemoveCourse(course_id)
    \/ \E student_id \in StudentIds, course_id \in CourseIds :
          EnrollCourse(student_id, course_id)
    \/ \E student_id \in StudentIds, course_id \in CourseIds, grade \in Grades :
          RecordGrade(student_id, course_id, grade)
    \/ \E course_id \in CourseIds, student \in PassedNames :
          CourseRemoveStudentCall(course_id, student)

Spec == Init /\ [][Next]_vars

\* The enrollment operations: every operation but record_grade, with more
\* students and two course names.
NextEnroll ==
    \/ \E name \in StudentNames :
          /\ StudentInitRaises(name) \/ student_id_counter <= MaxStudentsEnroll
          /\ AddStudent(name)
    \/ \E student_id \in StudentIdsEnroll : RemoveStudent(student_id)
    \/ \E name \in CourseNames :
          course_id_counter <= MaxCoursesEnroll /\ AddCourse(name)
    \/ \E course_id \in CourseIdsEnroll : RemoveCourse(course_id)
    \/ \E student_id \in StudentIdsEnroll, course_id \in CourseIdsEnroll :
          EnrollCourse(student_id, course_id)
    \/ \E course_id \in CourseIdsEnroll, student \in PassedNames :
          CourseRemoveStudentCall(course_id, student)

SpecEnroll == Init /\ [][NextEnroll]_vars

\* add_student with empty, blank and other names, among the enrollment
\* operations of the manager.
NextBlank ==
    \/ \E name \in BlankStudentNames :
          /\ StudentInitRaises(name) \/ student_id_counter <= MaxStudentsEnroll
          /\ AddStudent(name)
    \/ \E student_id \in StudentIdsEnroll : RemoveStudent(student_id)
    \/ \E name \in CourseNames :
          course_id_counter <= MaxCoursesEnroll /\ AddCourse(name)
    \/ \E student_id \in StudentIdsEnroll, course_id \in CourseIdsEnroll :
          EnrollCourse(student_id, course_id)

SpecBlank == Init /\ [][NextBlank]_vars

\* One student and several courses, whose names may be empty or equal.
NextCourses ==
    \/ \E name \in OneStudentName :
          /\ StudentInitRaises(name) \/ student_id_counter <= MaxStudentsCourses
          /\ AddStudent(name)
    \/ \E student_id \in StudentIdsCourses : RemoveStudent(student_id)
    \/ \E name \in CourseNamesDup :
          course_id_counter <= MaxCoursesCourses /\ AddCourse(name)
    \/ \E course_id \in CourseIdsCourses : RemoveCourse(course_id)
    \/ \E student_id \in StudentIdsCourses, course_id \in CourseIdsCourses :
          EnrollCourse(student_id, course_id)
    \/ \E course_id \in CourseIdsCourses, student \in OneStudentName :
          CourseRemoveStudentCall(course_id, student)

SpecCourses == Init /\ [][NextCourses]_vars

\* One student "Amina" and one course "Biology": registration, enrollment,
\* un-enrollment on the course, removal and search.
NextTrace ==
    \/ \E name \in TraceStudentNames :
          student_id_counter <= MaxStudentsTrace /\ AddStudent(name)
    \/ \E student_id \in StudentIdsTrace : RemoveStudent(student_id)
    \/ \E name \in TraceCourseNames :
          course_id_counter <= MaxCoursesTrace /\ AddCourse(name)
    \/ \E course_id \in CourseIdsTrace : RemoveCourse(course_id)
    \/ \E student_id \in StudentIdsTrace, course_id \in CourseIdsTrace :
          EnrollCourse(student_id, course_id)
    \/ \E course_id \in CourseIdsTrace, student \in TraceStudentNames :
          CourseRemoveStudentCall(course_id, student)
    \/ \E search_name \in TraceQueries : SearchCourses(search_name)

SpecTrace == Init /\ [][NextTrace]_vars

\* Courses whose names differ in case or in length, registered, removed and
\* searched.
NextSearch ==
    \/ \E name \in SearchCourseNames :
          course_id_counter <= MaxCoursesSearch /\ AddCourse(name)
    \/ \E course_id \in CourseIdsSearch : RemoveCourse(course_id)
    \/ \E search_name \in SearchQueries : SearchCourses(search_name)

SpecSearch == Init /\ [][NextSearch]_vars

\* Several students and several courses: registration, enrollment and
\* Course.remove_student, the operations that write the two lists.
NextOrder ==
    \/ \E name \in PassedNames :
          student_id_counter <= MaxStudentsOrder /\ AddStudent(name)
    \/ \E name \in CourseNames :
          course_id_counter <= MaxCoursesOrder /\ AddCourse(name)
    \/ \E student_id \in StudentIdsOrder, course_id \in CourseIdsOrder :
          EnrollCourse(student_id, course_id)
    \/ \E course_id \in CourseIdsOrder, student \in PassedNames :
          CourseRemoveStudentCall(course_id, student)

SpecOrder == Init /\ [][NextOrder]_vars

\* Students and courses registered, removed and listed, and the caller
\* writing to a returned list.
NextList ==
    \/ \E name \in TraceStudentNames :
          student_id_counter <= MaxStudentsList /\ AddStudent(name)
    \/ \E student_id \in StudentIdsList : RemoveStudent(student_id)
    \/ \E name \in GradedCourseNames :
          course_id_counter <= MaxCoursesList /\ AddCourse(name)
    \/ \E course_id \in CourseIdsList : RemoveCourse(course_id)
    \/ GetAllStudents
    \/ GetAllCourses
    \/ ReturnedListAppend("x")
    \/ ReturnedListPop

SpecList == Init /\ [][NextList]_vars

\* Several students and several courses, whose names may be equal, and the
\* grades recorded for them.
NextGrades ==
    \/ \E name \in TraceStudentNames :
          student_id_counter <= MaxStudentsGrades /\ AddStudent(name)
    \/ \E name \in CourseNames :
          course_id_counter <= MaxCoursesGrades /\ AddCourse(name)
    \/ \E student_id \in StudentIdsGrades, course_id \in CourseIdsGrades,
          grade \in TwoGrades :
          RecordGrade(student_id, course_id, grade)

SpecGrades == Init /\ [][NextGrades]_vars

\* Students of PY/STD: construction, enroll_in_course and add_grade.
NextStrict ==
    \/ \E name \in OneStudentName :
          /\ Len(name) = 0 \/ student_id_counter <= MaxStudentsStrict
          /\ StrictStudentInit(name)
    \/ \E student_id \in StudentIdsStrict, course \in CourseNames :
          StrictEnrollInCourse(student_id, course)
    \/ \E student_id \in StudentIdsStrict, course_id \in CourseNames,
          grade \in Grades :
          StrictAddGrade(student_id, course_id, grade)

SpecStrict == Init /\ [][NextStrict]_vars

\* The operations of the manager that write the registry, and both Course
\* methods called on a registered course.
NextPermanent ==
    \/ \E name \in StudentNames :
          /\ StudentInitRaises(name) \/ student_id_counter <= MaxStudentsPermanent
          /\ AddStudent(name)
    \/ \E student_id \in StudentIdsPermanent : RemoveStudent(student_id)
    \/ \E name \in GradedCourseNames :
          course_id_counter <= MaxCoursesPermanent /\ AddCourse(name)
    \/ \E course_id \in CourseIdsPermanent : RemoveCourse(course_id)
    \/ \E student_id \in StudentIdsPermanent, course_id \in CourseIdsPermanent :
          EnrollCourse(student_id, course_id)
    \/ \E student_id \in StudentIdsPermanent, course_id \in CourseIdsPermanent,
          grade \in Grades :
          RecordGrade(student_id, course_id, grade)
    \/ \E course_id \in CourseIdsPermanent, student \in PassedNames :
          CourseEnrollStudentCall(course_id, student)
    \/ \E course_id \in CourseIdsPermanent, student \in PassedNames :
          CourseRemoveStudentCall(course_id, student)

SpecPermanent == Init /\ [][NextPermanent]_vars

\* Course objects and the two list methods of both Course classes.
NextCourseList ==
    \/ \E name \in GradedCourseNames :
          course_id_counter <= MaxCoursesCourseList /\ AddCourse(name)
    \/ \E course_id \in CourseIdsCourseList, student \in ListedStudents :
          CourseEnrollStudentCall(course_id, student)
    \/ \E course_id \in CourseIdsCourseList, student \in ListedStudents :
          CourseRemoveStudentCall(course_id, student)
    \/ \E course_id \in CourseIdsCourseList, student \in ListedStudents :
          StdCourseEnrollStudentCall(course_id, student)
    \/ \E course_id \in CourseIdsCourseList, student \in ListedStudents :
          StdCourseRemoveStudentCall(course_id, student)

SpecCourseList == Init /\ [][NextCourseList]_vars

\* ------------------------------------------------------------------ claims
\* The arguments of the call a step makes are read from last'; the state the
\* call starts from is the unprimed state.

\* C1: for every registered student s and registered course c, s's
\* enrolled-course list holds c's reference (its name) only if c's
\* enrolled-student list holds s's reference (its name).
C1_Symmetry ==
    \A s \in DOMAIN students, c \in DOMAIN courses :
        courses[c].name \in Range(students[s].enrolled_courses)
            => students[s].name \in Range(courses[c].enrolled_students)

\* C2: an enroll call either appends the course to the student's list and the
\* student to the course's list, or changes neither list.
C2_EnrollAtomic ==
    [][last'.op = "enroll_course" =>
        LET sid == last'.args[1]
            cid == last'.args[2]
        IN  \/ students' = students /\ courses' = courses
            \/ /\ sid \in DOMAIN students /\ cid \in DOMAIN courses
               /\ students' = [students EXCEPT ![sid].enrolled_courses =
                                  Append(@, courses[cid].name)]
               /\ courses' = [courses EXCEPT ![cid].enrolled_students =
                                 Append(@, students[sid].name)]]_vars

\* C3: the IDs returned by the successful add_student calls are strictly
\* increasing in call order (so none is returned twice).
C3_IdsStrictlyIncreasing ==
    \A i, j \in 1..Len(returned) : i < j => returned[i] < returned[j]

\* C3 witness: two IDs were returned and the first student was removed.
C3_Witness ==
    /\ Len(returned) = 2
    /\ returned[1] \notin DOMAIN students
    /\ returned[2] \in DOMAIN students

\* C4: remove_student does not delete a student whose reference is in some
\* registered course's list, and remove_course does not delete a course whose
\* reference is in some registered student's list.
C4_RemovalRefusedWhileReferenced ==
    [][/\ last'.op = "remove_student" =>
            LET sid == last'.args[1]
            IN  (/\ sid \in DOMAIN students
                 /\ \E c \in DOMAIN courses :
                       students[sid].name \in Range(courses[c].enrolled_students))
                    => sid \in DOMAIN students'
       /\ last'.op = "remove_course" =>
            LET cid == last'.args[1]
            IN  (/\ cid \in DOMAIN courses
                 /\ \E s \in DOMAIN students :
                       courses[cid].name \in Range(students[s].enrolled_courses))
                    => cid \in DOMAIN courses']_vars

\* C5: remove_student(id) deletes the student exactly when id is registered and
\* the student's enrolled-course list is empty, and otherwise leaves every
\* student as it was; remove_course likewise on the course's list.
C5_RemoveIffNoEnrollment ==
    [][/\ last'.op = "remove_student" =>
            LET sid == last'.args[1]
            IN  /\ courses' = courses
                /\ IF sid \in DOMAIN students /\ Len(students[sid].enrolled_courses) = 0
                   THEN /\ DOMAIN students' = DOMAIN students \ {sid}
                        /\ \A x \in DOMAIN students' : students'[x] = students[x]
                   ELSE students' = students
       /\ last'.op = "remove_course" =>
            LET cid == last'.args[1]
            IN  /\ students' = students
                /\ IF cid \in DOMAIN courses /\ Len(courses[cid].enrolled_students) = 0
                   THEN /\ DOMAIN courses' = DOMAIN courses \ {cid}
                        /\ \A x \in DOMAIN courses' : courses'[x] = courses[x]
                   ELSE courses' = courses]_vars

\* C5 witness: remove_student was just refused for a student with an
\* enrollment, who is still registered.
C5_Witness ==
    /\ last.op = "remove_student"
    /\ last.args[1] \in DOMAIN students
    /\ Len(students[last.args[1]].enrolled_courses) > 0

\* C6: enroll(s, c) for a pair an earlier enroll(s, c) succeeded on is refused
\* as already enrolled and changes no list.
C6_SecondEnrollRefused ==
    [][(/\ last'.op = "enroll_course"
        /\ <<last'.args[1], last'.args[2]>> \in enrolledPairs
        /\ last'.args[1] \in DOMAIN students
        /\ last'.args[2] \in DOMAIN courses)
         => /\ students' = students
            /\ courses' = courses
            /\ last'.out = << <<"Student is already enrolled in the course.">> >>]_vars

\* C6 witness: the last call was such a second enroll.
C6_Witness ==
    /\ last.op = "enroll_course"
    /\ <<last.args[1], last.args[2]>> \in enrolledPairs
    /\ last.out = << <<"Student is already enrolled in the course.">> >>

\* The calls the manager rejects, by kind; c is the call, read against the
\* state it starts from.
NotFoundCall(c) ==
    \/ c.op = "remove_student" /\ c.args[1] \notin DOMAIN students
    \/ c.op = "remove_course" /\ c.args[1] \notin DOMAIN courses
    \/ /\ c.op \in {"enroll_course", "record_grade"}
       /\ (c.args[1] \notin DOMAIN students \/ c.args[2] \notin DOMAIN courses)

ConflictCall(c) ==
    \/ /\ c.op = "remove_student"
       /\ c.args[1] \in DOMAIN students
       /\ Len(students[c.args[1]].enrolled_courses) > 0
    \/ /\ c.op = "remove_course"
       /\ c.args[1] \in DOMAIN courses
       /\ Len(courses[c.args[1]].enrolled_students) > 0
    \/ /\ c.op = "enroll_course"
       /\ c.args[1] \in DOMAIN students
       /\ c.args[2] \in DOMAIN courses
       /\ courses[c.args[2]].name \in Range(students[c.args[1]].enrolled_courses)

InvalidCall(c) ==
    \/ c.op = "add_student" /\ c.args[1] = ""
    \/ /\ c.op = "record_grade"
       /\ c.args[1] \in DOMAIN students
       /\ c.args[2] \in DOMAIN courses
       /\ (c.args[3] < 0 \/ c.args[3] > 100)

\* C7: a rejected call leaves both collections (every name, enrolled list and
\* grade mapping in them) and both ID counters as they were.
C7_RejectedUnchanged ==
    [][(NotFoundCall(last') \/ ConflictCall(last') \/ InvalidCall(last'))
         => /\ students' = students
            /\ courses' = courses
            /\ student_id_counter' = student_id_counter
            /\ course_id_counter' = course_id_counter]_vars

\* C7 witness: add_student was just rejected in a registry that holds a
\* student and a course.
C7_Witness ==
    /\ last.op = "add_student"
    /\ last.args[1] = ""
    /\ students # EmptyDict
    /\ courses # EmptyDict

C9_GradesOnlyForEnrolled ==
    \A s \in DOMAIN students :
        \A k \in DOMAIN students[s].grades :
            k \in Range(students[s].enrolled_courses)

\* C10: record_grade(s, c, g) on registered s and c stores g under the course
\* exactly when 0 <= g <= 100; otherwise it raises and the student's grade
\* mapping is as it was.
C10_GradeRange ==
    [][(/\ last'.op = "record_grade"
        /\ last'.args[1] \in DOMAIN students
        /\ last'.args[2] \in DOMAIN courses)
         => LET sid == last'.args[1]
                key == courses[last'.args[2]].name
                g == last'.args[3]
            IN  IF 0 <= g /\ g <= 100
                THEN /\ last'.exc = "none"
                     /\ key \in DOMAIN students'[sid].grades
                     /\ students'[sid].grades[key] = g
                ELSE /\ last'.exc = "ValueError"
                     /\ students'[sid].grades = students[sid].grades]_vars

\* C10 witness: record_grade(s, c, 101) has just raised and the grade 100
\* recorded earlier for that course is still there.
C10_Witness ==
    /\ last.op = "record_grade"
    /\ last.exc = "ValueError"
    /\ last.args[3] = 101
    /\ last.args[1] \in DOMAIN students
    /\ last.args[2] \in DOMAIN courses
    /\ courses[last.args[2]].name \in DOMAIN students[last.args[1]].grades
    /\ students[last.args[1]].grades[courses[last.args[2]].name] = 100

\* A name that is empty or consists only of whitespace characters.
IsBlankName(name) == \A i \in 1..Len(name) : name[i] \in {" ", "\t", "\n"}

\* C11: add_student(name) raises and stores nothing when name is empty or
\* blank, and succeeds for every other name.
C11_BlankNameRejected ==
    [][last'.op = "add_student" =>
        IF IsBlankName(last'.args[1])
        THEN /\ last'.exc # "none"
             /\ students' = students
        ELSE /\ last'.exc = "none"
             /\ DOMAIN students' = DOMAIN students \cup {last'.ret[1]}
             /\ students'[last'.ret[1]].name = last'.args[1]]_vars

\* C12: an ID deleted from a registry never becomes a key of it again, and
\* a newly created student or course never gets an ID that was assigned
\* before, whether its earlier holder is still registered or was removed.
C12_IdsNeverReused ==
    [][/\ (Range(returned) \ DOMAIN students) \cap DOMAIN students' = {}
       /\ (Range(returned_courses) \ DOMAIN courses) \cap DOMAIN courses' = {}
       /\ (last'.op = "add_student" /\ last'.exc = "none")
            => last'.ret[1] \notin Range(returned)
       /\ last'.op = "add_course"
            => last'.ret[1] \notin Range(returned_courses)]_vars

\* A second student is created after student 1 was removed.
C12_Witness ==
    /\ last.op = "add_student"
    /\ last.ret = <<2>>
    /\ 1 \in Range(returned)
    /\ 1 \notin DOMAIN students

\* C13: student IDs and course IDs come from two counters that start at 1
\* and do not influence each other: the k-th successful add_student
\* returned k and the k-th add_course returned k, whatever calls were
\* interleaved, and each counter stands one past the IDs it has given out.
C13_IndependentCounters ==
    /\ \A k \in 1..Len(returned) : returned[k] = k
    /\ \A k \in 1..Len(returned_courses) : returned_courses[k] = k
    /\ student_id_counter = Len(returned) + 1
    /\ course_id_counter = Len(returned_courses) + 1

\* The second course is created after a student was: both counters gave
\* out 1, and the course counter then gives 2.
C13_Witness ==
    /\ last.op = "add_course"
    /\ last.ret = <<2>>
    /\ returned = <<1>>
    /\ returned_courses = <<1, 2>>

\* The registry along the trace of C14: fresh; Amina registered; Biology
\* registered; Amina enrolled in Biology; Amina taken off Biology's list;
\* Biology removed.
TraceFresh ==
    /\ returned = <<>> /\ returned_courses = <<>>
    /\ DOMAIN students = {} /\ DOMAIN courses = {}
TraceStudentAdded ==
    /\ returned = <<1>> /\ returned_courses = <<>>
    /\ DOMAIN students = {1} /\ DOMAIN courses = {}
    /\ students[1].name = "Amina" /\ students[1].enrolled_courses = <<>>
TraceCourseAdded ==
    /\ returned = <<1>> /\ returned_courses = <<1>>
    /\ DOMAIN students = {1} /\ DOMAIN courses = {1}
    /\ students[1].name = "Amina" /\ students[1].enrolled_courses = <<>>
    /\ courses[1].name = Biology /\ courses[1].enrolled_students = <<>>
TraceEnrolled ==
    /\ returned = <<1>> /\ returned_courses = <<1>>
    /\ DOMAIN students = {1} /\ DOMAIN courses = {1}
    /\ students[1].name = "Amina" /\ students[1].enrolled_courses = <<Biology>>
    /\ courses[1].name = Biology /\ courses[1].enrolled_students = <<"Amina">>
TraceUnenrolled ==
    /\ returned = <<1>> /\ returned_courses = <<1>>
    /\ DOMAIN students = {1} /\ DOMAIN courses = {1}
    /\ students[1].name = "Amina" /\ students[1].enrolled_courses = <<Biology>>
    /\ courses[1].name = Biology /\ courses[1].enrolled_students = <<>>
TraceCourseRemoved ==
    /\ returned = <<1>> /\ returned_courses = <<1>>
    /\ DOMAIN students = {1} /\ DOMAIN courses = {}
    /\ students[1].name = "Amina" /\ students[1].enrolled_courses = <<Biology>>

\* C14: from a fresh process add_student("Amina") returns 1, then
\* add_course("Biology") returns 1, then enroll_course(1, 1) succeeds, then
\* remove_course(1) is refused because the course has a student and changes
\* nothing; after Biology's remove_student("Amina"), remove_course(1)
\* removes the course, and search_courses("Biology") then returns [].
C14_EndToEnd ==
    [][/\ (TraceFresh /\ last'.op = "add_student" /\ last'.args = <<"Amina">>)
            => (last'.ret = <<1>> /\ TraceStudentAdded')
       /\ (TraceStudentAdded /\ last'.op = "add_course" /\ last'.args = <<Biology>>)
            => (last'.ret = <<1>> /\ TraceCourseAdded')
       /\ (TraceCourseAdded /\ last'.op = "enroll_course" /\ last'.args = <<1, 1>>)
            => /\ last'.exc = "none"
               /\ last'.out[Len(last'.out)] = <<"Student enrolled in course successfully.">>
               /\ TraceEnrolled'
       /\ (TraceEnrolled /\ last'.op = "remove_course" /\ last'.args = <<1>>)
            => /\ last'.out = << <<"Course has enrolled students. Cannot remove.">> >>
               /\ courses' = courses /\ students' = students
       /\ (TraceEnrolled /\ last'.op = "Course.remove_student"
             /\ last'.args = <<1, "Amina">>)
            => TraceUnenrolled'
       /\ (TraceUnenrolled /\ last'.op = "remove_course" /\ last'.args = <<1>>)
            => /\ last'.out = << <<"Course removed successfully.">> >>
               /\ TraceCourseRemoved'
       /\ (TraceCourseRemoved /\ last'.op = "search_courses"
             /\ last'.args = <<Biology>>)
            => last'.ret = << <<>> >>]_vars

\* The end of the trace: Biology was removed after Amina had enrolled in it,
\* and the search for it has returned the empty list.
C14_Witness ==
    /\ TraceCourseRemoved
    /\ enrolledPairs = {<<1, 1>>}
    /\ last.op = "search_courses"
    /\ last.args = <<Biology>>
    /\ last.ret = << <<>> >>

\* Two characters are the same letter: equal, or the capital and the small
\* form of one letter.
SameLetter(x, y) ==
    \/ x = y
    \/ \E i \in DOMAIN UpperLetters : {x, y} = {UpperLetters[i], LowerLetters[i]}

\* Two names are equal when case is ignored.
EqualIgnoringCase(a, b) ==
    /\ Len(a) = Len(b)
    /\ \A i \in 1..Len(a) : SameLetter(a[i], b[i])

\* The names of the registered courses whose name is q up to case, in the
\* order in which the courses were added.
MatchingInAddOrder(q) ==
    LET ids == SelectSeq(returned_courses,
                         LAMBDA k : /\ k \in DOMAIN courses
                                    /\ EqualIgnoringCase(courses[k].name, q))
    IN  [i \in 1..Len(ids) |-> courses[ids[i]].name]

\* C15: search_courses(q) returns the names of the registered courses whose
\* name equals q when case is ignored, one entry per such course, in the
\* order the courses were added (so [] when none matches, and never a name
\* that only contains q), and changes nothing in the registry.
C15_SearchExactIgnoringCase ==
    [][last'.op = "search_courses" =>
        /\ last'.exc = "none"
        /\ last'.ret = <<MatchingInAddOrder(last'.args[1])>>
        /\ UNCHANGED <<students, courses, student_keys, course_keys,
                       student_id_counter, course_id_counter>>]_vars

\* "Math", "Mathematics" and "MATH" are registered in this order and the
\* search for "math" has returned ["Math", "MATH"].
C15_Witness ==
    /\ last.op = "search_courses"
    /\ last.args = << <<"m", "a", "t", "h">> >>
    /\ last.ret = << << <<"M", "a", "t", "h">>, <<"M", "A", "T", "H">> >> >>
    /\ DOMAIN courses = {1, 2, 3}
    /\ Len(courses[2].name) = 11

\* A list without a repeated entry.
NoDuplicates(list) == \A i, j \in 1..Len(list) : list[i] = list[j] => i = j

\* One step of a list that keeps its entries in the order of their arrival:
\* it stays as it is, gets a new entry at its end, or loses one entry.
OrderKept(old, new) ==
    \/ new = old
    \/ \E x \in Range(new) : x \notin Range(old) /\ new = Append(old, x)
    \/ \E i \in 1..Len(old) :
          new = SubSeq(old, 1, i - 1) \o SubSeq(old, i + 1, Len(old))

\* C16: no student's enrolled_courses and no course's enrolled_students
\* holds an entry twice, and each list holds its entries in the order in
\* which the enrollments succeeded: every step leaves a list, appends an
\* entry it did not hold, or takes one entry out, and a successful
\* enroll_course puts the course at the end of the student's list.
C16_NoDuplicatesInOrder ==
    [][/\ \A s \in DOMAIN students' :
            /\ NoDuplicates(students'[s].enrolled_courses)
            /\ s \in DOMAIN students =>
                 OrderKept(students[s].enrolled_courses, students'[s].enrolled_courses)
       /\ \A c \in DOMAIN courses' :
            /\ NoDuplicates(courses'[c].enrolled_students)
            /\ c \in DOMAIN courses =>
                 OrderKept(courses[c].enrolled_students, courses'[c].enrolled_students)
       /\ (/\ last'.op = "enroll_course"
           /\ last'.out[Len(last'.out)] = <<"Student enrolled in course successfully.">>)
            => students'[last'.args[1]].enrolled_courses =
                 Append(students[last'.args[1]].enrolled_courses,
                        courses[last'.args[2]].name)]_vars

\* Both lists hold two entries in the order of enrollment, which is not
\* the order of the IDs.
C16_Witness ==
    /\ last.op = "enroll_course"
    /\ DOMAIN students = {1, 2} /\ DOMAIN courses = {1, 2}
    /\ students[1].name = "Amina" /\ students[2].name = "Omar"
    /\ courses[1].name = "Math" /\ courses[2].name = "Biology"
    /\ students[1].enrolled_courses = <<"Biology", "Math">>
    /\ courses[1].enrolled_students = <<"Omar", "Amina">>

\* The registered entities of a registry, in the order in which they were
\* added: ids is the sequence of the IDs given out so far.
RegisteredInAddOrder(dict, ids) ==
    LET kept == SelectSeq(ids, LAMBDA k : k \in DOMAIN dict)
    IN  [i \in 1..Len(kept) |-> dict[kept[i]]]

\* C17: get_all_students and get_all_courses return the registered students
\* (courses), each once, in the order they were added, the removed ones
\* left out, and change nothing; appending to or popping from the returned
\* list changes neither dictionary.
C17_ListingsInAddOrder ==
    [][/\ last'.op = "get_all_students" =>
            last'.ret = <<RegisteredInAddOrder(students, returned)>>
       /\ last'.op = "get_all_courses" =>
            last'.ret = <<RegisteredInAddOrder(courses, returned_courses)>>
       /\ last'.op \in {"get_all_students", "get_all_courses", "list.append", "list.pop"}
            => UNCHANGED <<students, courses, student_keys, course_keys,
                           student_id_counter, course_id_counter>>]_vars

\* Students 1, 2 and 3 were added and student 2 removed; get_all_students
\* has returned students 1 and 3 in this order, the caller has popped the
\* first entry of that list, and the registry still holds both students.
C17_Witness ==
    /\ last.op = "list.pop"
    /\ last.args = <<"get_all_students">>
    /\ returned = <<1, 2, 3>>
    /\ DOMAIN students = {1, 3}
    /\ last.ret = << <<students[3]>> >>

\* C18: add_course(name) never fails, whatever the name (empty, or the name
\* of a registered course): it registers, under an ID never given before,
\* a course of that name with an empty enrolled_students, and leaves every
\* existing course and every student as it was.
C18_AddCourseAnyName ==
    [][last'.op = "add_course" =>
        /\ last'.exc = "none"
        /\ last'.ret[1] \notin Range(returned_courses)
        /\ DOMAIN courses' = DOMAIN courses \cup {last'.ret[1]}
        /\ courses'[last'.ret[1]].course_id = last'.ret[1]
        /\ courses'[last'.ret[1]].name = last'.args[1]
        /\ courses'[last'.ret[1]].enrolled_students = <<>>
        /\ \A c \in DOMAIN courses : courses'[c] = courses[c]
        /\ students' = students]_vars

\* A second course named "Math" is created while the first one has a
\* student: the new course has its own, empty list.
C18_Witness ==
    /\ last.op = "add_course"
    /\ last.args = <<"Math">>
    /\ last.ret = <<2>>
    /\ DOMAIN courses = {1, 2}
    /\ courses[1].name = "Math"
    /\ courses[1].enrolled_students = <<"Amina">>
    /\ courses[2].enrolled_students = <<>>

\* C19: enroll_course(s, c2) on a registered student and course tests the
\* name of c2 against s's enrolled_courses.  If s has enrolled in another
\* registered course c1 of the same name, the call is refused as already
\* enrolled and changes no course and no student; if no course of that name
\* is in s's list, the call succeeds and appends the name to the list.
C19_DuplicateCheckByName ==
    [][(/\ last'.op = "enroll_course"
        /\ last'.args[1] \in DOMAIN students
        /\ last'.args[2] \in DOMAIN courses) =>
        LET s == last'.args[1]
            c2 == last'.args[2]
        IN  /\ (\E c1 \in DOMAIN courses \ {c2} :
                    /\ <<s, c1>> \in enrolledPairs
                    /\ courses[c1].name = courses[c2].name)
                 => /\ last'.out = << <<"Student is already enrolled in the course.">> >>
                    /\ courses' = courses
                    /\ students' = students
                    /\ enrolledPairs' = enrolledPairs
            /\ courses[c2].name \notin Range(students[s].enrolled_courses)
                 => /\ last'.out[Len(last'.out)] =
                         <<"Student enrolled in course successfully.">>
                    /\ students'[s].enrolled_courses =
                         Append(students[s].enrolled_courses, courses[c2].name)
                    /\ <<s, c2>> \in enrolledPairs']_vars

\* Student 1 has enrolled in course 1; course 2 has the same name and no
\* student; enroll_course(1, 2) has been refused.
C19_Witness ==
    /\ last.op = "enroll_course"
    /\ last.args = <<1, 2>>
    /\ last.out = << <<"Student is already enrolled in the course.">> >>
    /\ enrolledPairs = {<<1, 1>>}
    /\ DOMAIN courses = {1, 2}
    /\ courses[1].name = courses[2].name
    /\ courses[2].enrolled_students = <<>>

\* C20: a successful record_grade(s, c, grade) sets the entry of c's name
\* in s's grade mapping to grade, whatever the entry was, and leaves the
\* entries of the other names and the mappings of the other students as
\* they were; no other step writes a grade mapping.  So each name's entry
\* is the grade of the most recent successful call for a course of that
\* name, and two courses of one name share one entry.
C20_GradeByNameLastWriteWins ==
    [][IF /\ last'.op = "record_grade"
          /\ last'.out = << <<"Grade recorded successfully.">> >>
       THEN LET s == last'.args[1]
                name == courses[last'.args[2]].name
            IN  /\ DOMAIN students'[s].grades = DOMAIN students[s].grades \cup {name}
                /\ students'[s].grades[name] = last'.args[3]
                /\ \A n \in DOMAIN students[s].grades \ {name} :
                      students'[s].grades[n] = students[s].grades[n]
                /\ \A o \in DOMAIN students \ {s} : students'[o] = students[o]
                /\ DOMAIN students' = DOMAIN students
       ELSE \A o \in DOMAIN students' :
              students'[o].grades = IF o \in DOMAIN students
                                    THEN students[o].grades
                                    ELSE EmptyDict]_vars

\* Courses 1 and 2 are both named "Math"; student 1 had the grade 50 for
\* "Math" and record_grade(1, 2, 100) has replaced it; student 2 keeps 50.
C20_Witness ==
    /\ last.op = "record_grade"
    /\ last.args = <<1, 2, 100>>
    /\ last.exc = "none"
    /\ DOMAIN students = {1, 2} /\ DOMAIN courses = {1, 2}
    /\ courses[1].name = "Math" /\ courses[2].name = "Math"
    /\ DOMAIN students[1].grades = {"Math"}
    /\ students[1].grades["Math"] = 100
    /\ DOMAIN students[2].grades = {"Math"}
    /\ students[2].grades["Math"] = 50

\* C21: for the Student of PY/STD, every key of grades is in enrolled_courses
\* and enrolled_courses has no duplicates; add_grade for a course that is
\* not in enrolled_courses raises the not-enrolled error, whatever the
\* grade, and enroll_in_course for a listed course raises, and a raising
\* call leaves grades and enrolled_courses as they were.
C21_StrictGradesWithinEnrolled ==
    [][/\ \A s \in DOMAIN students' :
            /\ DOMAIN students'[s].grades \subseteq Range(students'[s].enrolled_courses)
            /\ NoDuplicates(students'[s].enrolled_courses)
       /\ (/\ last'.op = "Student.add_grade"
           /\ last'.args[2] \notin Range(students[last'.args[1]].enrolled_courses))
            => /\ last'.exc = "ValueError: Not enrolled in course"
               /\ students' = students
       /\ (/\ last'.op = "Student.enroll_in_course"
           /\ last'.args[2] \in Range(students[last'.args[1]].enrolled_courses))
            => /\ last'.exc = "ValueError: Already enrolled"
               /\ students' = students
       /\ (last'.op \in {"Student.add_grade", "Student.enroll_in_course"}
             /\ last'.exc # "none")
            => students' = students]_vars

\* The student is enrolled in "Math" alone and has a grade for it;
\* add_grade("Biology", 101) has been rejected as not enrolled, although
\* the grade is out of range too.
C21_Witness ==
    /\ last.op = "Student.add_grade"
    /\ last.args = <<1, "Biology", 101>>
    /\ last.exc = "ValueError: Not enrolled in course"
    /\ students[1].enrolled_courses = <<"Math">>
    /\ DOMAIN students[1].grades = {"Math"}

\* The list new begins with the list old.
IsPrefix(old, new) ==
    /\ Len(old) <= Len(new)
    /\ SubSeq(new, 1, Len(old)) = old

\* C22: no step shortens a student's enrolled_courses, a successful
\* enroll_course(s, c) leaves c's name in s's list and a name in c's list,
\* a student with a non-empty list stays registered and remove_student on
\* that student is refused; and every step other than Course.remove_student
\* keeps a course with a non-empty enrolled_students registered, with its
\* list not shortened, remove_course on it being refused.
C22_EnrollmentPermanent ==
    [][/\ \A s \in DOMAIN students :
            students[s].enrolled_courses # <<>> =>
              /\ s \in DOMAIN students'
              /\ IsPrefix(students[s].enrolled_courses, students'[s].enrolled_courses)
              /\ (last'.op = "remove_student" /\ last'.args = <<s>>) =>
                   last'.out = << <<"Student has enrolled courses. Cannot remove.">> >>
       /\ (/\ last'.op = "enroll_course"
           /\ last'.out[Len(last'.out)] = <<"Student enrolled in course successfully.">>)
            => /\ courses[last'.args[2]].name
                    \in Range(students'[last'.args[1]].enrolled_courses)
               /\ courses'[last'.args[2]].enrolled_students # <<>>
       /\ last'.op # "Course.remove_student" =>
            \A c \in DOMAIN courses :
              courses[c].enrolled_students # <<>> =>
                /\ c \in DOMAIN courses'
                /\ IsPrefix(courses[c].enrolled_students, courses'[c].enrolled_students)
                /\ (last'.op = "remove_course" /\ last'.args = <<c>>) =>
                     last'.out = << <<"Course has enrolled students. Cannot remove.">> >>]_vars

\* The student enrolled in course 1; the course was emptied by
\* Course.remove_student and removed; remove_student(1) is still refused.
C22_Witness ==
    /\ last.op = "remove_student"
    /\ last.args = <<1>>
    /\ last.out = << <<"Student has enrolled courses. Cannot remove.">> >>
    /\ enrolledPairs = {<<1, 1>>}
    /\ DOMAIN courses = {}
    /\ DOMAIN students = {1}

\* The entries of a list other than x, in the list's order.
Others(list, x) == SelectSeq(list, LAMBDA y : y # x)

\* C23: on every course and for every student x, with either Course class:
\* enroll_student(x) twice leaves the list that one call leaves;
\* remove_student(x) for an x that is not in the list leaves the list;
\* enroll_student(x) and then remove_student(x), on a list without x,
\* gives the list back; and neither call changes the order of the entries
\* other than x.
C23_EnrollIdempotentRemoveInverse ==
    \A c \in DOMAIN courses : \A x \in ListedStudents :
        LET course == courses[c]
            list == course.enrolled_students
        IN  /\ CourseEnrollStudent(CourseEnrollStudent(course, x), x)
                 = CourseEnrollStudent(course, x)
            /\ StdCourseEnrollStudent(StdCourseEnrollStudent(course, x), x)
                 = StdCourseEnrollStudent(course, x)
            /\ x \in Range(CourseEnrollStudent(course, x).enrolled_students)
            /\ x \in Range(StdCourseEnrollStudent(course, x).enrolled_students)
            /\ x \notin Range(list) =>
                 /\ CourseRemoveStudent(course, x) = course
                 /\ StdCourseRemoveStudent(course, x) = course
                 /\ CourseRemoveStudent(CourseEnrollStudent(course, x), x) = course
                 /\ StdCourseRemoveStudent(StdCourseEnrollStudent(course, x), x) = course
            /\ Others(CourseEnrollStudent(course, x).enrolled_students, x) = Others(list, x)
            /\ Others(StdCourseEnrollStudent(course, x).enrolled_students, x) = Others(list, x)
            /\ Others(CourseRemoveStudent(course, x).enrolled_students, x) = Others(list, x)
            /\ Others(StdCourseRemoveStudent(course, x).enrolled_students, x) = Others(list, x)

\* "Sara" has been removed from a list in which she stood among "Omar" and
\* "Amina", who are left in their order.
C23_Witness ==
    /\ last.op = "Course.remove_student"
    /\ last.args = <<1, "Sara">>
    /\ last.out = << <<"student removed from ", "Math">> >>
    /\ courses[1].enrolled_students = <<"Omar", "Amina">>

====
